---- MODULE Spec2Model ----
(***************************************************************************)
(* mdlayher/ethernet: the Frame and VLAN binary codecs.                    *)
(*                                                                         *)
(* Byte slices are modelled as Go has them: a slice is a window            *)
(* (arr, off, len) on a backing array of the heap, so that copying and     *)
(* aliasing are different things.  The state is what a caller of the       *)
(* package holds: a receiver Frame f, a retained Frame kept, an input      *)
(* buffer b, a marshalled buffer out, and the result of the last call.     *)
(*                                                                         *)
(* packetconn.go is modelled next to the codecs: conn is one PacketConn    *)
(* (its template, its mode and its sync.RWMutex) and gor the goroutines    *)
(* that call WriteTo and SetFrame on it, each at a line of its call.       *)
(***************************************************************************)
EXTENDS Integers, Sequences, FiniteSets, TLC

VARIABLES heap, f, kept, b, out, sent, prov, reuse, last, conn, gor

vars == <<heap, f, kept, b, out, sent, prov, reuse, last, conn, gor>>

---------------------------------------------------------------------------
(* Bounds of the exploration *)

\* most VLAN marker blocks in an input buffer, most tags in a Frame literal
MaxTags == 2

\* most UnmarshalBinary calls made on one receiver after its first
MaxReuse == 2

\* backing arrays the heap can hold at once
NumArrays == 10

\* goroutines that call into one PacketConn
NumGoroutines == 2

\* calls of WriteTo and SetFrame made on one PacketConn
MaxCalls == 4

---------------------------------------------------------------------------
(* Program constants *)

EtherTypeIPv4 == 2048

EtherTypeARP == 2054

EtherTypeVLAN == 33024

MarshalModeNormal == 0

MarshalModeFCS == 1

Byte == 0..255

---------------------------------------------------------------------------
(* Go slices and encoding/binary *)

Min(x, y) == IF x < y THEN x ELSE y

\* a nil slice
NilSlice == [arr |-> 0, off |-> 0, len |-> 0]

\* new(Frame)
ZeroFrame ==
  [DestinationMAC |-> NilSlice, SourceMAC |-> NilSlice, VLAN |-> <<>>,
   EtherType |-> 0, Payload |-> NilSlice]

\* new(VLAN)
ZeroVLAN == [Priority |-> 0, DropEligible |-> FALSE, ID |-> 0]

\* s[lo:hi] of a byte sequence, Go indices
Slice(s, lo, hi) == SubSeq(s, lo + 1, hi)

\* the bytes a slice shows: its first len bytes
Bytes(h, s) == IF s.arr = 0 THEN <<>> ELSE Slice(h[s.arr], s.off, s.off + s.len)

\* the bytes a slice can be resliced to: up to its capacity
CapBytes(h, s) == IF s.arr = 0 THEN <<>> ELSE Slice(h[s.arr], s.off, Len(h[s.arr]))

\* make([]byte, n)
Zeros(n) == [i \in 1..n |-> 0]

\* copy(dst, src) on byte sequences: min(len(dst), len(src)) bytes are copied
Copy(dst, src) ==
  [i \in 1..Len(dst) |-> IF i <= Len(src) THEN src[i] ELSE dst[i]]

\* binary.BigEndian.Uint16
Uint16(s) == s[1] * 256 + s[2]

\* binary.BigEndian.PutUint16
PutUint16(v) == <<v \div 256, v % 256>>

RECURSIVE Or16(_, _, _)
\* a | b on the low n bits
Or16(x, y, n) ==
  IF n = 0 THEN 0
  ELSE (IF x % 2 = 1 \/ y % 2 = 1 THEN 1 ELSE 0) + 2 * Or16(x \div 2, y \div 2, n - 1)

\* the arrays a Frame's slices point into
Slots(fr) == {fr.DestinationMAC.arr, fr.SourceMAC.arr, fr.Payload.arr} \ {0}

\* make: the lowest array not in use
Alloc(used) ==
  CHOOSE a \in 1..NumArrays : a \notin used /\ \A c \in 1..(a - 1) : c \in used

\* the garbage collector: an array nothing points into is gone
Collect(h, live) == [a \in 1..NumArrays |-> IF a \in live THEN h[a] ELSE <<>>]

\* a Frame as reflect.DeepEqual sees it: the bytes, not the pointers
Val(h, fr) ==
  [DestinationMAC |-> Bytes(h, fr.DestinationMAC),
   SourceMAC |-> Bytes(h, fr.SourceMAC),
   VLAN |-> fr.VLAN,
   EtherType |-> fr.EtherType,
   Payload |-> Bytes(h, fr.Payload)]

---------------------------------------------------------------------------
(* vlan.go *)

\* the packing as it would be with the range checks the tests expect
VLAN_MarshalBinary_Checked(v) ==
  IF v.Priority > 7 \/ v.ID >= 4095
  THEN [b |-> <<>>, err |-> "ErrInvalidVLAN"]
  ELSE [b |-> PutUint16(v.Priority * 8192 + (IF v.DropEligible THEN 4096 ELSE 0) + v.ID),
        err |-> "nil"]

\* VLAN.MarshalBinary: pack (priority, drop eligible, id) into 2 bytes
VLAN_MarshalBinary(v) ==
  LET ub0 == (v.Priority * 8192) % 65536
      drop == IF v.DropEligible THEN 1 ELSE 0
      ub1 == Or16(ub0, drop * 4096, 16)
      ub == Or16(ub1, v.ID, 16)
  IN [b |-> PutUint16(ub), err |-> "nil"]

\* the unpacking as it would be with the drop-eligible bit read one bit low
VLAN_UnmarshalBinary_DropBit(v, bs) ==
  IF Len(bs) # 2
  THEN [v |-> v, err |-> "ErrUnexpectedEOF"]
  ELSE LET ub == Uint16(bs)
       IN [v |-> [Priority |-> ub \div 8192,
                  DropEligible |-> (ub \div 2048) % 2 # 0,
                  ID |-> ub % 4096],
           err |-> "nil"]

\* VLAN.UnmarshalBinary: unpack a tag body into the receiver v
VLAN_UnmarshalBinary(v, bs) ==
  IF Len(bs) # 2
  THEN [v |-> v, err |-> "ErrUnexpectedEOF"]
  ELSE LET ub == Uint16(bs)
       IN [v |-> [Priority |-> ub \div 8192,
                  DropEligible |-> (ub \div 4096) % 2 # 0,
                  ID |-> ub % 4096],
           err |-> "nil"]

---------------------------------------------------------------------------
(* ethernet.go: Frame.MarshalBinary *)

RECURSIVE MarshalVLANs_NoAdvance(_, _, _, _)
\* the loop as it would be without "n += 4"
MarshalVLANs_NoAdvance(bs, vlans, i, n) ==
  IF i > Len(vlans) THEN [b |-> bs, n |-> n, err |-> "nil"]
  ELSE LET r == [b |-> PutUint16(((vlans[i].Priority * 8192) % 65536)
                                 + (IF vlans[i].DropEligible THEN 4096 ELSE 0)
                                 + (vlans[i].ID % 4096)),
                 err |-> "nil"]
           m == PutUint16(EtherTypeVLAN)
           b1 == [k \in 1..Len(bs) |->
                    IF k = n + 1 THEN m[1]
                    ELSE IF k = n + 2 THEN m[2]
                    ELSE IF k = n + 3 THEN r.b[1]
                    ELSE IF k = n + 4 THEN r.b[2]
                    ELSE bs[k]]
       IN MarshalVLANs_NoAdvance(b1, vlans, i + 1, n)

RECURSIVE MarshalVLANs(_, _, _, _)
\* the loop over f.VLAN: write marker and tag body at n, stop at the first error
MarshalVLANs(bs, vlans, i, n) ==
  IF i > Len(vlans) THEN [b |-> bs, n |-> n, err |-> "nil"]
  ELSE LET r == VLAN_MarshalBinary(vlans[i])
       IN IF r.err # "nil" THEN [b |-> bs, n |-> n, err |-> r.err]
          ELSE LET m == PutUint16(EtherTypeVLAN)
                   b1 == [k \in 1..Len(bs) |->
                            IF k = n + 1 THEN m[1]
                            ELSE IF k = n + 2 THEN m[2]
                            ELSE IF k = n + 3 THEN r.b[1]
                            ELSE IF k = n + 4 THEN r.b[2]
                            ELSE bs[k]]
               IN MarshalVLANs(b1, vlans, i + 1, n + 4)

\* the encoding as it would be with short payloads padded with zeros to the
\* 46-byte minimum
Frame_MarshalBinary_Padded(fv) ==
  LET pl == IF Len(fv.Payload) < 46
            THEN fv.Payload \o Zeros(46 - Len(fv.Payload)) ELSE fv.Payload
      size == 6 + 6 + (4 * Len(fv.VLAN)) + 2 + Len(pl)
      b0 == Zeros(size)
      b1 == Copy(Slice(b0, 0, 6), fv.DestinationMAC) \o Slice(b0, 6, size)
      b2 == Slice(b1, 0, 6) \o Copy(Slice(b1, 6, 12), fv.SourceMAC) \o Slice(b1, 12, size)
      lp == MarshalVLANs(b2, fv.VLAN, 1, 12)
  IN IF lp.err # "nil" THEN [b |-> <<>>, ok |-> FALSE, err |-> lp.err]
     ELSE LET n == lp.n
              et == PutUint16(fv.EtherType)
              b3 == Slice(lp.b, 0, n) \o et \o Slice(lp.b, n + 2, size)
              b4 == Slice(b3, 0, n + 2) \o Copy(Slice(b3, n + 2, size), pl)
          IN [b |-> b4, ok |-> TRUE, err |-> "nil"]

\* Frame.MarshalBinary on a Frame's value: the bytes, or nil and an error
Frame_MarshalBinary(fv) ==
  LET size == 6 + 6 + (4 * Len(fv.VLAN)) + 2 + Len(fv.Payload)
      b0 == Zeros(size)
      b1 == Copy(Slice(b0, 0, 6), fv.DestinationMAC) \o Slice(b0, 6, size)
      b2 == Slice(b1, 0, 6) \o Copy(Slice(b1, 6, 12), fv.SourceMAC) \o Slice(b1, 12, size)
      lp == MarshalVLANs(b2, fv.VLAN, 1, 12)
  IN IF lp.err # "nil" THEN [b |-> <<>>, ok |-> FALSE, err |-> lp.err]
     ELSE LET n == lp.n
              et == PutUint16(fv.EtherType)
              b3 == Slice(lp.b, 0, n) \o et \o Slice(lp.b, n + 2, size)
              b4 == Slice(b3, 0, n + 2) \o Copy(Slice(b3, n + 2, size), fv.Payload)
          IN [b |-> b4, ok |-> TRUE, err |-> "nil"]

---------------------------------------------------------------------------
(* ethernet.go: Frame.UnmarshalBinary *)

\* "if len(b) < 14": both MAC addresses and one EtherType must be present
HeaderShort(blen) == blen < 14

\* the addresses as they would be read with the two offsets exchanged
ReadAddresses_Swapped(h, fr, buf, others) ==
  LET a1 == Alloc(others \cup Slots(fr))
      h1 == [h EXCEPT ![a1] = Copy(Zeros(6), Slice(buf, 6, 12))]
      f1 == [fr EXCEPT !.DestinationMAC = [arr |-> a1, off |-> 0, len |-> 6]]
      a2 == Alloc(others \cup Slots(f1))
      h2 == [h1 EXCEPT ![a2] = Copy(Zeros(6), Slice(buf, 0, 6))]
      f2 == [f1 EXCEPT !.SourceMAC = [arr |-> a2, off |-> 0, len |-> 6]]
  IN [h |-> h2, f |-> f2]

\* dst := make(6); copy(dst, b[0:6]); f.DestinationMAC = dst, then the same
\* for the source: each address gets an array of its own
ReadAddresses(h, fr, buf, others) ==
  LET a1 == Alloc(others \cup Slots(fr))
      h1 == [h EXCEPT ![a1] = Copy(Zeros(6), Slice(buf, 0, 6))]
      f1 == [fr EXCEPT !.DestinationMAC = [arr |-> a1, off |-> 0, len |-> 6]]
      a2 == Alloc(others \cup Slots(f1))
      h2 == [h1 EXCEPT ![a2] = Copy(Zeros(6), Slice(buf, 6, 12))]
      f2 == [f1 EXCEPT !.SourceMAC = [arr |-> a2, off |-> 0, len |-> 6]]
  IN [h |-> h2, f |-> f2]

RECURSIVE VLANLoop(_, _, _, _, _, _)
\* "for ; et == EtherTypeVLAN; n += 4": buf is b up to its capacity, blen is
\* len(b), vlans is f.VLAN, past tells whether a byte at or beyond len(b) was read
VLANLoop(buf, blen, vlans, n, et, past) ==
  IF et # EtherTypeVLAN
  THEN [VLAN |-> vlans, n |-> n, et |-> et, err |-> "nil", past |-> past]
  ELSE IF n > blen
  \* b[n:] with n beyond len(b): slice bounds out of range
  THEN [VLAN |-> vlans, n |-> n, et |-> et, err |-> "panic", past |-> past]
  ELSE IF blen - n < 2
  THEN [VLAN |-> vlans, n |-> n, et |-> et, err |-> "ErrUnexpectedEOF", past |-> past]
  ELSE LET r == VLAN_UnmarshalBinary(ZeroVLAN, Slice(buf, n, n + 2))
       IN IF r.err # "nil"
          THEN [VLAN |-> vlans, n |-> n, et |-> et, err |-> r.err, past |-> past]
          ELSE IF n + 4 > Len(buf)
          \* b[n+2 : n+4] beyond cap(b): slice bounds out of range
          THEN [VLAN |-> Append(vlans, r.v), n |-> n, et |-> et,
                err |-> "panic", past |-> past]
          ELSE VLANLoop(buf, blen, Append(vlans, r.v), n + 4,
                        Uint16(Slice(buf, n + 2, n + 4)), past \/ n + 4 > blen)

\* the check as it would be with every tag lowering the minimum by 4
PayloadShort_NoClamp(nvlan, rem) ==
  LET l == 46 - rem
      vl == IF nvlan = 0 /\ l = 4 THEN 1 ELSE nvlan
  IN rem < 46 - (vl * 4)

\* the minimum-length check: rem is len(b[n:]), nvlan is len(f.VLAN)
PayloadShort(nvlan, rem) ==
  LET l == 46 - rem
      vl0 == IF nvlan > 1 THEN 1 ELSE nvlan
      vl == IF vl0 = 0 /\ l = 4 THEN vl0 + 1 ELSE vl0
  IN rem < 46 - (vl * 4)

\* the payload as it would be with f.Payload = b[n:], no copy made
ReadPayload_Alias(h, fr, bsl, n, others) ==
  [h |-> h,
   f |-> [fr EXCEPT !.Payload = [arr |-> bsl.arr, off |-> bsl.off + n, len |-> bsl.len - n]]]

\* payload := make(len(b[n:])); copy(payload, b[n:]); f.Payload = payload
ReadPayload(h, fr, bsl, n, others) ==
  LET a == Alloc(others \cup Slots(fr))
      src == Slice(Bytes(h, bsl), n, bsl.len)
      h1 == [h EXCEPT ![a] = Copy(Zeros(bsl.len - n), src)]
  IN [h |-> h1, f |-> [fr EXCEPT !.Payload = [arr |-> a, off |-> 0, len |-> bsl.len - n]]]

\* the decoding as it would be with the payload copied before the
\* minimum-length check
Frame_UnmarshalBinary_EagerPayload(h, fr, bsl, others) ==
  IF HeaderShort(bsl.len)
  THEN [h |-> h, f |-> fr, err |-> "ErrUnexpectedEOF", past |-> FALSE]
  ELSE LET buf == CapBytes(h, bsl)
           ad == ReadAddresses(h, fr, buf, others)
           lp == VLANLoop(buf, bsl.len, ad.f.VLAN, 14, Uint16(Slice(buf, 12, 14)), FALSE)
           f3 == [ad.f EXCEPT !.VLAN = lp.VLAN]
       IN IF lp.err # "nil"
          THEN [h |-> ad.h, f |-> f3, err |-> lp.err, past |-> lp.past]
          ELSE LET f4 == [f3 EXCEPT !.EtherType = lp.et]
               IN IF lp.n > bsl.len
                  THEN [h |-> ad.h, f |-> f4, err |-> "panic", past |-> lp.past]
                  ELSE LET pl == ReadPayload(ad.h, f4, bsl, lp.n, others)
                       IN [h |-> pl.h, f |-> pl.f,
                           err |-> IF PayloadShort(Len(f4.VLAN), bsl.len - lp.n)
                                   THEN "ErrUnexpectedEOF" ELSE "nil",
                           past |-> lp.past]

\* Frame.UnmarshalBinary(b) on the receiver fr; others are the arrays the
\* caller holds besides fr's.  Returns the heap and the receiver as the call
\* leaves them, the error, and whether a byte beyond len(b) was read.
Frame_UnmarshalBinary(h, fr, bsl, others) ==
  IF HeaderShort(bsl.len)
  THEN [h |-> h, f |-> fr, err |-> "ErrUnexpectedEOF", past |-> FALSE]
  ELSE LET buf == CapBytes(h, bsl)
           ad == ReadAddresses(h, fr, buf, others)
           lp == VLANLoop(buf, bsl.len, ad.f.VLAN, 14, Uint16(Slice(buf, 12, 14)), FALSE)
           f3 == [ad.f EXCEPT !.VLAN = lp.VLAN]
       IN IF lp.err # "nil"
          THEN [h |-> ad.h, f |-> f3, err |-> lp.err, past |-> lp.past]
          ELSE LET f4 == [f3 EXCEPT !.EtherType = lp.et]
               IN IF lp.n > bsl.len
                  \* len(b[n:]) with n beyond len(b)
                  THEN [h |-> ad.h, f |-> f4, err |-> "panic", past |-> lp.past]
                  ELSE IF PayloadShort(Len(f4.VLAN), bsl.len - lp.n)
                  THEN [h |-> ad.h, f |-> f4, err |-> "ErrUnexpectedEOF", past |-> lp.past]
                  ELSE LET pl == ReadPayload(ad.h, f4, bsl, lp.n, others)
                       IN [h |-> pl.h, f |-> pl.f, err |-> "nil", past |-> lp.past]

---------------------------------------------------------------------------
(* The inputs callers hand to the package *)

\* destination 00:01:00:01:00:01, source 01:00:01:00:01:00
HdrA == <<0, 1, 0, 1, 0, 1, 1, 0, 1, 0, 1, 0>>

\* destination Broadcast, source 00:01:00:01:00:01
HdrB == <<255, 255, 255, 255, 255, 255, 0, 1, 0, 1, 0, 1>>

\* a payload of n bytes, each byte telling its place
Pattern(n) == [i \in 1..n |-> i]

\* tag bodies on the wire: 0x2065 (PRI 1, ID 101) and 0xFFFF (PRI 7, DROP,
\* ID 4095)
Bodies == {8293, 65535}

\* payload lengths around the minimum-length rule
PayloadLens == {0, 38, 41, 42, 43, 44, 45, 46, 47}

\* every sequence of at most n elements of S
SeqsUpTo(S, n) == UNION {[1..k -> S] : k \in 0..n}

RECURSIVE Blocks(_)
\* the wire form of a tag chain: marker and body, 4 bytes a tag
Blocks(chain) ==
  IF chain = <<>> THEN <<>>
  ELSE PutUint16(EtherTypeVLAN) \o PutUint16(Head(chain)) \o Blocks(Tail(chain))

\* an input buffer: data is what len(b) shows, slack the rest of its capacity
Buf(data, slack) == [data |-> data, slack |-> slack]

\* well-formed buffers: header, tag chain, EtherType, payload
WholeBuffers ==
  {Buf(HdrA \o Blocks(c) \o PutUint16(EtherTypeIPv4) \o Pattern(p), <<>>) :
     c \in SeqsUpTo(Bodies, MaxTags), p \in PayloadLens}

\* all-zero buffers: nil, 13 bytes, 14 bytes, and 56 bytes (a stripped tag)
ZeroBuffers == {Buf(Zeros(n), <<>>) : n \in {0, 13, 14, 56}}

\* buffers that end inside the tag chain, with and without spare capacity
TruncatedBuffers ==
  {Buf(HdrA \o Blocks(c) \o PutUint16(EtherTypeVLAN) \o t, s) :
     c \in SeqsUpTo({8293}, MaxTags - 1),
     t \in {<<>>, <<0>>, <<32, 101>>, <<32, 101, 8>>},
     s \in {<<>>, <<0, 0>>, <<129, 0>>}}

\* the buffers decoded into a receiver that is used again, or next to a
\* retained Frame: 0x1064 is (DROP, ID 100)
ReuseBuffers ==
  {Buf(hc[1] \o Blocks(hc[2]) \o PutUint16(EtherTypeARP) \o Pattern(p), <<>>) :
     hc \in {<<HdrA, <<>>>>, <<HdrB, <<4196>>>>}, p \in {42, 43}}
  \cup {Buf(Zeros(13), <<>>), Buf(HdrB \o Blocks(<<4196>>) \o PutUint16(EtherTypeVLAN), <<>>)}

Buffers == WholeBuffers \cup ZeroBuffers \cup TruncatedBuffers \cup ReuseBuffers

\* VLAN values in Frame literals: valid ones, priority 8, ID 4095 (VLANMax)
TagLits ==
  {[Priority |-> 0, DropEligible |-> TRUE, ID |-> 100],
   [Priority |-> 1, DropEligible |-> FALSE, ID |-> 101],
   [Priority |-> 7, DropEligible |-> TRUE, ID |-> 4093],
   [Priority |-> 8, DropEligible |-> FALSE, ID |-> 0],
   [Priority |-> 0, DropEligible |-> FALSE, ID |-> 4095]}

\* a Frame literal, as a value
Lit(dst, src, vlans, et, payload) ==
  [DestinationMAC |-> dst, SourceMAC |-> src, VLAN |-> vlans, EtherType |-> et,
   Payload |-> payload]

\* Frame literals: addressed frames with every tag chain, frames without
\* addresses, and a frame whose EtherType is the VLAN marker
FrameLits ==
  {Lit(Slice(HdrB, 0, 6), Slice(HdrB, 6, 12), c, EtherTypeARP, Pattern(p)) :
     c \in SeqsUpTo(TagLits, MaxTags), p \in {5, 42, 43, 46}}
  \cup {Lit(<<>>, <<>>, c, EtherTypeARP, Pattern(p)) :
          c \in SeqsUpTo(TagLits, 1), p \in {0, 46}}
  \cup {Lit(Slice(HdrB, 0, 6), Slice(HdrB, 6, 12), <<>>, EtherTypeVLAN, Pattern(p)) :
          p \in {46, 50}}

\* VLAN values handed to VLAN.MarshalBinary
VLANs ==
  [Priority : {0, 1, 7, 8, 255}, DropEligible : BOOLEAN,
   ID : {0, 100, 101, 4093, 4094, 4095, 4196}]

\* byte slices handed to VLAN.UnmarshalBinary
VLANBytes ==
  {<<>>, <<0>>, <<1, 2, 3>>}
  \cup {PutUint16(w) : w \in {0, 8293, 4196, 65535, 4095, 4094, 61437, 65533, 4097}}

---------------------------------------------------------------------------
(* packetconn.go: the PacketConn and its callers *)

Goroutines == 1..NumGoroutines

\* a nil *Frame
NilFrame == [nil |-> TRUE]

\* the Frames callers hand to SetFrame: an untagged ARP template and a tagged
\* IPv4 template, addresses and payload left for WriteTo to fill in
Templates ==
  {Lit(<<>>, Slice(HdrB, 6, 12), <<>>, EtherTypeARP, <<>>),
   Lit(<<>>, Slice(HdrA, 6, 12), <<[Priority |-> 0, DropEligible |-> TRUE, ID |-> 100]>>,
       EtherTypeIPv4, <<>>)}

\* the modes callers hand to SetFrame: the two known ones and an unknown one
Modes == {MarshalModeNormal, MarshalModeFCS, 2}

\* the addr of WriteTo: an *Addr holding a hardware address, or a net.Addr of
\* another type
Addrs == {[isAddr |-> TRUE, addr |-> Slice(HdrA, 0, 6)], [isAddr |-> FALSE, addr |-> <<>>]}

\* the b of WriteTo
WritePayloads == {Pattern(46)}

\* NewPacketConn(c): no template, mode zero, the mutex free, nothing written
NewPacketConn ==
  [f |-> NilFrame, mode |-> MarshalModeNormal, readers |-> {}, writer |-> 0,
   wire |-> <<>>, calls |-> 0]

\* a goroutine outside every call
Idle ==
  [pc |-> "idle", b |-> <<>>, addr |-> <<>>, tf |-> NilFrame, tmode |-> 0,
   f |-> NilFrame, fb |-> <<>>, err |-> "nil"]

---------------------------------------------------------------------------
(* The calls *)

\* the record of the last call
NoCall ==
  [op |-> "none", err |-> "nil", fresh |-> FALSE, past |-> FALSE, from |-> "none",
   prov |-> "zero", before |-> Val(<<>>, ZeroFrame), kbefore |-> Val(<<>>, ZeroFrame),
   arg |-> <<>>, res |-> <<>>,
   v |-> ZeroVLAN]

Init ==
  /\ heap = [a \in 1..NumArrays |-> <<>>]
  /\ f = ZeroFrame
  /\ kept = ZeroFrame
  /\ b = NilSlice
  /\ out = NilSlice
  /\ sent = Val(<<>>, ZeroFrame)
  /\ prov = "zero"
  /\ reuse = 0
  /\ last = NoCall
  /\ conn = NewPacketConn
  /\ gor = [g \in Goroutines |-> Idle]

\* a slice on a new array holding bytes; nil for no bytes
NewSlice(a, bytes) ==
  IF bytes = <<>> THEN NilSlice ELSE [arr |-> a, off |-> 0, len |-> Len(bytes)]

\* f := &Frame{...}: the caller builds a Frame from a literal
SetFrame(lit) ==
  /\ last.op = "none"
  /\ LET d == NewSlice(1, lit.DestinationMAC)
         s == NewSlice(2, lit.SourceMAC)
         p == NewSlice(3, lit.Payload)
         h == [heap EXCEPT ![1] = lit.DestinationMAC, ![2] = lit.SourceMAC,
                           ![3] = lit.Payload]
     IN /\ f' = [DestinationMAC |-> d, SourceMAC |-> s, VLAN |-> lit.VLAN,
                 EtherType |-> lit.EtherType, Payload |-> p]
        /\ heap' = Collect(h, Slots(f'))
  /\ prov' = "literal"
  /\ reuse' = 0
  /\ out' = NilSlice
  /\ sent' = Val(<<>>, ZeroFrame)
  /\ last' = [NoCall EXCEPT !.op = "SetFrame"]
  /\ UNCHANGED <<kept, b, conn, gor>>

\* fb, err := f.MarshalBinary()
Marshal ==
  LET fv == Val(heap, f)
      r == Frame_MarshalBinary(fv)
      a == Alloc(Slots(f) \cup Slots(kept) \cup ({b.arr} \ {0}))
  IN /\ last.op \in {"SetFrame", "Unmarshal"}
     /\ out' = IF r.ok THEN [arr |-> a, off |-> 0, len |-> Len(r.b)] ELSE NilSlice
     /\ heap' = Collect(IF r.ok THEN [heap EXCEPT ![a] = r.b] ELSE heap,
                        Slots(f) \cup Slots(kept) \cup ({b.arr, out'.arr} \ {0}))
     /\ sent' = fv
     /\ last' = [NoCall EXCEPT !.op = "Marshal", !.err = r.err, !.prov = prov,
                               !.before = fv, !.res = r.b]
     /\ UNCHANGED <<f, kept, b, prov, reuse, conn, gor>>

\* the receiver, the buffer and the bookkeeping after f.UnmarshalBinary(bsl),
\* with f := new(Frame) first when fresh
Decode(h, bsl, fresh, from, keepOut) ==
  LET recv == IF fresh THEN ZeroFrame ELSE f
      others == {bsl.arr} \cup Slots(kept) \cup ({keepOut.arr} \ {0})
      r == Frame_UnmarshalBinary(h, recv, bsl, others \ {0})
  IN /\ f' = r.f
     /\ b' = bsl
     /\ out' = keepOut
     /\ heap' = Collect(r.h, (others \cup Slots(r.f)) \ {0})
     /\ prov' = IF r.err # "nil" THEN "failed" ELSE IF fresh THEN "fresh" ELSE "reused"
     /\ reuse' = IF fresh THEN 0 ELSE reuse + 1
     /\ last' = [NoCall EXCEPT !.op = "Unmarshal", !.err = r.err, !.fresh = fresh,
                               !.past = r.past, !.from = from, !.prov = prov,
                               !.before = Val(h, recv), !.arg = Bytes(h, bsl)]
     /\ UNCHANGED <<kept, conn, gor>>

\* err := f.UnmarshalBinary(tt.b) on a buffer of the caller's
Unmarshal(in, fresh) ==
  /\ \/ last.op = "none" /\ fresh /\ in \in Buffers
     \/ last.op = "Keep" /\ fresh /\ in \in ReuseBuffers
     \/ /\ ~fresh
        /\ prov \in {"fresh", "reused", "failed"}
        /\ kept = ZeroFrame
        /\ reuse < MaxReuse
        /\ in \in ReuseBuffers
        /\ Buf(Bytes(heap, b), <<>>) \in ReuseBuffers
  /\ LET recv == IF fresh THEN ZeroFrame ELSE f
         a == Alloc(Slots(recv) \cup Slots(kept))
         h == [heap EXCEPT ![a] = in.data \o in.slack]
     IN Decode(h, [arr |-> a, off |-> 0, len |-> Len(in.data)], fresh, "input", NilSlice)
  /\ sent' = Val(<<>>, ZeroFrame)

\* err := f.UnmarshalBinary(fb) on the bytes MarshalBinary just returned
Redecode(fresh) ==
  /\ last.op = "Marshal"
  /\ last.prov = "literal"
  /\ out # NilSlice
  /\ ~fresh => reuse < MaxReuse
  /\ Decode(heap, out, fresh, "out", out)
  /\ UNCHANGED sent

\* the caller writes into its buffer after the decode: b[i] ^= 0xff
Mutate(i) ==
  /\ last.op \in {"Unmarshal", "Keep"}
  /\ b # NilSlice
  /\ 0 <= i
  /\ i < b.len
  /\ heap' = [heap EXCEPT ![b.arr][b.off + i + 1] = 255 - @]
  /\ last' = [NoCall EXCEPT !.op = "Mutate", !.prov = prov, !.arg = <<i>>,
                            !.before = Val(heap, f), !.kbefore = Val(heap, kept)]
  /\ UNCHANGED <<f, kept, b, out, sent, prov, reuse, conn, gor>>

\* the caller retains the decoded Frame and goes on with f := new(Frame)
Keep ==
  /\ last.op = "Unmarshal"
  /\ last.err = "nil"
  /\ kept = ZeroFrame
  /\ kept' = f
  /\ f' = ZeroFrame
  /\ prov' = "zero"
  /\ reuse' = 0
  /\ last' = [NoCall EXCEPT !.op = "Keep"]
  /\ UNCHANGED <<heap, b, out, sent, conn, gor>>

\* b, err := v.MarshalBinary()
VLANMarshal(v) ==
  /\ last.op = "none"
  /\ LET r == VLAN_MarshalBinary(v)
     IN last' = [NoCall EXCEPT !.op = "VLAN.Marshal", !.err = r.err, !.v = v, !.res = r.b]
  /\ UNCHANGED <<heap, f, kept, b, out, sent, prov, reuse, conn, gor>>

\* v := new(VLAN); err := v.UnmarshalBinary(bs)
VLANUnmarshal(bs) ==
  /\ last.op = "none"
  /\ LET r == VLAN_UnmarshalBinary(ZeroVLAN, bs)
     IN last' = [NoCall EXCEPT !.op = "VLAN.Unmarshal", !.err = r.err, !.v = r.v, !.arg = bs]
  /\ UNCHANGED <<heap, f, kept, b, out, sent, prov, reuse, conn, gor>>

Next ==
  \/ \E lit \in FrameLits : SetFrame(lit)
  \/ Marshal
  \/ \E in \in Buffers, fresh \in BOOLEAN : Unmarshal(in, fresh)
  \/ \E fresh \in BOOLEAN : Redecode(fresh)
  \/ \E i \in {0, 6, b.len - 1} : Mutate(i)
  \/ Keep
  \/ \E v \in VLANs : VLANMarshal(v)
  \/ \E bs \in VLANBytes : VLANUnmarshal(bs)

Spec == Init /\ [][Next]_vars

---------------------------------------------------------------------------
(* packetconn.go: PacketConn.WriteTo and PacketConn.SetFrame, line by line *)

\* the variables of the codec callers, which no PacketConn call touches
codecVars == <<heap, f, kept, b, out, sent, prov, reuse, last>>

\* the process is alive: no goroutine has panicked
Running == \A g \in Goroutines : gor[g].pc # "panic"

\* the checksums MarshalFCS may append: the CRC of the frame is not computed
\* here, any 4 bytes stand for it
Trailers == {<<0, 0, 0, 0>>, <<222, 173, 190, 239>>}

\* Frame.MarshalFCS: the marshalled frame and a 4-byte frame check sequence
Frame_MarshalFCS(fv, fcs) ==
  LET r == Frame_MarshalBinary(fv)
  IN IF r.ok THEN [r EXCEPT !.b = r.b \o fcs] ELSE r

\* the call returns: the goroutine is outside every call again
Return(g, err) == [gor EXCEPT ![g] = [Idle EXCEPT !.err = err]]

\* c.mu.RLock() as it would be if it did not wait for the writer
RLock_NoWait(g) ==
  /\ conn' = [conn EXCEPT !.readers = @ \cup {g}]
  /\ gor' = [gor EXCEPT ![g].pc = "copy"]

\* c.mu.RLock(): waits while a writer holds the mutex
RLock(g) ==
  /\ conn.writer = 0
  /\ conn' = [conn EXCEPT !.readers = @ \cup {g}]
  /\ gor' = [gor EXCEPT ![g].pc = "copy"]

\* c.mu.Lock(): waits while a writer or any reader holds the mutex
Lock(g) ==
  /\ conn.writer = 0
  /\ conn.readers = {}
  /\ conn' = [conn EXCEPT !.writer = g]
  /\ gor' = [gor EXCEPT ![g].pc = "setf"]

\* WriteTo(b, addr) is called: "dst, ok := addr.(*Addr)", an error when the
\* addr is of another type
WriteTo_Call(g, pb, addr) ==
  /\ Running
  /\ gor[g].pc = "idle"
  /\ conn.calls < MaxCalls
  /\ conn' = [conn EXCEPT !.calls = @ + 1]
  /\ gor' = IF addr.isAddr
            THEN [gor EXCEPT ![g] = [Idle EXCEPT !.pc = "RLock", !.b = pb, !.addr = addr.addr]]
            ELSE Return(g, "addr must be of type *ethernet.Addr")
  /\ UNCHANGED codecVars

\* c.mu.RLock(); defer c.mu.RUnlock()
WriteTo_RLock(g) ==
  /\ Running
  /\ gor[g].pc = "RLock"
  /\ RLock(g)
  /\ UNCHANGED codecVars

\* f := *c.f; f.Destination = dst.addr; f.Payload = b. A nil c.f panics, and
\* the deferred RUnlock runs
WriteTo_Copy(g) ==
  /\ Running
  /\ gor[g].pc = "copy"
  /\ IF conn.f = NilFrame
     THEN /\ gor' = [gor EXCEPT ![g].pc = "panic"]
          /\ conn' = [conn EXCEPT !.readers = @ \ {g}]
     ELSE /\ gor' = [gor EXCEPT ![g].pc = "encode",
                                ![g].f = [conn.f EXCEPT !.DestinationMAC = gor[g].addr,
                                                        !.Payload = gor[g].b]]
          /\ UNCHANGED conn
  /\ UNCHANGED codecVars

\* switch c.mode: fb, err = f.MarshalFCS() or f.MarshalBinary(); on an error
\* the call returns it, and the deferred RUnlock runs
WriteTo_Encode(g) ==
  /\ Running
  /\ gor[g].pc = "encode"
  /\ \E fcs \in Trailers :
       LET r == IF conn.mode = MarshalModeFCS THEN Frame_MarshalFCS(gor[g].f, fcs)
                ELSE Frame_MarshalBinary(gor[g].f)
       IN \* Frame_MarshalBinary does not read fcs: one choice is enough
          /\ conn.mode # MarshalModeFCS => fcs = <<0, 0, 0, 0>>
          /\ IF r.err # "nil"
             THEN /\ gor' = Return(g, r.err)
                  /\ conn' = [conn EXCEPT !.readers = @ \ {g}]
             ELSE /\ gor' = [gor EXCEPT ![g].pc = "send", ![g].fb = r.b]
                  /\ UNCHANGED conn
  /\ UNCHANGED codecVars

\* return c.c.WriteTo(fb, addr): the transport takes the bytes; the deferred
\* RUnlock runs
WriteTo_Send(g) ==
  /\ Running
  /\ gor[g].pc = "send"
  /\ conn' = [conn EXCEPT !.wire = gor[g].fb, !.readers = @ \ {g}]
  /\ gor' = Return(g, "nil")
  /\ UNCHANGED codecVars

\* SetFrame(f, mode) is called: "switch mode", an error for an unknown mode
SetFrame_Call(g, tf, mode) ==
  /\ Running
  /\ gor[g].pc = "idle"
  /\ conn.calls < MaxCalls
  /\ conn' = [conn EXCEPT !.calls = @ + 1]
  /\ gor' = IF mode \in {MarshalModeNormal, MarshalModeFCS}
            THEN [gor EXCEPT ![g] = [Idle EXCEPT !.pc = "Lock", !.tf = tf, !.tmode = mode]]
            ELSE Return(g, "unknown MarshalMode")
  /\ UNCHANGED codecVars

\* c.mu.Lock()
SetFrame_Lock(g) ==
  /\ Running
  /\ gor[g].pc = "Lock"
  /\ Lock(g)
  /\ UNCHANGED codecVars

\* c.f = f
SetFrame_SetF(g) ==
  /\ Running
  /\ gor[g].pc = "setf"
  /\ conn' = [conn EXCEPT !.f = gor[g].tf]
  /\ gor' = [gor EXCEPT ![g].pc = "setmode"]
  /\ UNCHANGED codecVars

\* c.mode = mode
SetFrame_SetMode(g) ==
  /\ Running
  /\ gor[g].pc = "setmode"
  /\ conn' = [conn EXCEPT !.mode = gor[g].tmode]
  /\ gor' = [gor EXCEPT ![g].pc = "Unlock"]
  /\ UNCHANGED codecVars

\* c.mu.Unlock(); return nil
SetFrame_Unlock(g) ==
  /\ Running
  /\ gor[g].pc = "Unlock"
  /\ conn' = [conn EXCEPT !.writer = 0]
  /\ gor' = Return(g, "nil")
  /\ UNCHANGED codecVars

NextConn ==
  \/ \E g \in Goroutines, pb \in WritePayloads, addr \in Addrs : WriteTo_Call(g, pb, addr)
  \/ \E g \in Goroutines : WriteTo_RLock(g)
  \/ \E g \in Goroutines : WriteTo_Copy(g)
  \/ \E g \in Goroutines : WriteTo_Encode(g)
  \/ \E g \in Goroutines : WriteTo_Send(g)
  \/ \E g \in Goroutines, tf \in Templates, mode \in Modes : SetFrame_Call(g, tf, mode)
  \/ \E g \in Goroutines : SetFrame_Lock(g)
  \/ \E g \in Goroutines : SetFrame_SetF(g)
  \/ \E g \in Goroutines : SetFrame_SetMode(g)
  \/ \E g \in Goroutines : SetFrame_Unlock(g)

SpecConn == Init /\ [][NextConn]_vars

---------------------------------------------------------------------------
(* What the claims speak of *)

\* a tag within the documented ranges
ValidTag(v) == v.Priority <= 7 /\ v.ID <= 4093

\* the 16-bit word of a tag: priority, drop eligible, id
TagWord(v) == v.Priority * 8192 + (IF v.DropEligible THEN 4096 ELSE 0) + v.ID

RECURSIVE TagCount(_, _)
\* the marker blocks of a buffer whose type field ends at n, or -1 when the
\* buffer ends inside the chain
TagCount(bytes, n) ==
  IF Uint16(Slice(bytes, n - 2, n)) # EtherTypeVLAN THEN 0
  ELSE IF Len(bytes) < n + 4 THEN -1
  ELSE LET r == TagCount(bytes, n + 4) IN IF r < 0 THEN -1 ELSE r + 1

RECURSIVE ReservedBody(_, _)
\* the chain whose type field ends at n reaches a tag body with id 0x0FFF
ReservedBody(bytes, n) ==
  /\ Uint16(Slice(bytes, n - 2, n)) = EtherTypeVLAN
  /\ Len(bytes) >= n + 2
  /\ \/ Uint16(Slice(bytes, n, n + 2)) % 4096 = 4095
     \/ Len(bytes) >= n + 4 /\ ReservedBody(bytes, n + 4)

RECURSIVE TagsWire(_)
\* marker 0x8100 and packed tag, tag after tag
TagsWire(vlans) ==
  IF vlans = <<>> THEN <<>>
  ELSE <<129, 0, TagWord(Head(vlans)) \div 256, TagWord(Head(vlans)) % 256>>
       \o TagsWire(Tail(vlans))

\* a call of Frame.UnmarshalBinary on a new Frame has returned
FreshDecode == last.op = "Unmarshal" /\ last.fresh

\* a Frame was marshalled and the bytes decoded into a new Frame
RoundTrip ==
  /\ FreshDecode
  /\ last.from = "out"
  /\ \A i \in 1..Len(sent.VLAN) : ValidTag(sent.VLAN[i])
  /\ Len(sent.DestinationMAC) = 6
  /\ Len(sent.SourceMAC) = 6
  /\ sent.EtherType # EtherTypeVLAN

\* the payload lengths Frame.UnmarshalBinary accepts after k tags
LongEnough(k, p) == p >= 46 \/ (k >= 1 /\ p >= 42) \/ (k = 0 /\ p = 42)

ChainParsed ==
  /\ last.from = "input"
  /\ Len(last.arg) >= 14
  /\ TagCount(last.arg, 14) >= 0
  /\ ~ReservedBody(last.arg, 14)

C3_InvalidTagRejected ==
  /\ last.op = "VLAN.Marshal" =>
       /\ (last.v.Priority > 7 \/ last.v.ID = 4095) => last.err = "ErrInvalidVLAN"
       /\ ValidTag(last.v) => last.err = "nil" /\ Len(last.res) = 2
  /\ (last.op = "Marshal" /\ \E i \in 1..Len(last.before.VLAN) :
         last.before.VLAN[i].Priority > 7 \/ last.before.VLAN[i].ID = 4095)
       => last.err = "ErrInvalidVLAN" /\ last.res = <<>>

\* C4: VLAN.UnmarshalBinary of a 2-byte body whose low 12 bits are 0x0FFF
\* fails with ErrInvalidVLAN, and so does Frame.UnmarshalBinary of a buffer
\* whose tag chain holds such a body.
C4_ReservedIDRejected ==
  /\ (last.op = "VLAN.Unmarshal" /\ Len(last.arg) = 2 /\ Uint16(last.arg) % 4096 = 4095)
       => last.err = "ErrInvalidVLAN"
  /\ (last.op = "Unmarshal" /\ Len(last.arg) >= 14 /\ ReservedBody(last.arg, 14))
       => last.err = "ErrInvalidVLAN"

\* C5: UnmarshalBinary returns io.ErrUnexpectedEOF, reading no byte at or
\* beyond len(b), for every buffer that is shorter than 14 bytes or ends
\* inside the tag chain.
C5_TruncatedHeaderIsEOF ==
  (last.op = "Unmarshal" /\ (Len(last.arg) < 14 \/ TagCount(last.arg, 14) < 0))
    => last.err = "ErrUnexpectedEOF" /\ ~last.past

\* C6: when UnmarshalBinary into a new Frame succeeds, MarshalBinary of the
\* decoded Frame returns no error.
C6_DecodedFrameMarshals ==
  (last.op = "Marshal" /\ last.prov = "fresh") => last.err = "nil"

C6_Witness ==
  /\ last.op = "Marshal"
  /\ last.prov = "fresh"
  /\ \E i \in 1..Len(f.VLAN) : f.VLAN[i].ID = 4095
  /\ last.err = "nil"

\* C7: for a Frame with k valid tags and a payload of L bytes MarshalBinary
\* returns 14 + 4k + L bytes: destination, source, marker 0x8100 and packed
\* tag for each tag in order, the EtherType big-endian, the payload verbatim.
C7_WireLayout ==
  (last.op = "Marshal" /\ \A i \in 1..Len(last.before.VLAN) : ValidTag(last.before.VLAN[i]))
    => LET fv == last.before
           k == Len(fv.VLAN)
           n == Len(last.res)
       IN /\ last.err = "nil"
          /\ n = 14 + 4 * k + Len(fv.Payload)
          /\ Len(fv.DestinationMAC) = 6 => Slice(last.res, 0, 6) = fv.DestinationMAC
          /\ Len(fv.SourceMAC) = 6 => Slice(last.res, 6, 12) = fv.SourceMAC
          /\ Slice(last.res, 12, n) =
               TagsWire(fv.VLAN) \o <<fv.EtherType \div 256, fv.EtherType % 256>>
               \o fv.Payload

C7_Witness ==
  /\ last.op = "Marshal"
  /\ Len(last.before.VLAN) = 2
  /\ \A i \in 1..2 : ValidTag(last.before.VLAN[i])
  /\ last.before.VLAN[1] # last.before.VLAN[2]
  /\ Len(last.before.DestinationMAC) = 6
  /\ Len(last.before.Payload) = 46
  /\ Len(last.res) = 68

\* C8: for every valid tag t, VLAN.MarshalBinary(t) is the big-endian word
\* priority*8192 + dropEligible*4096 + id, and VLAN.UnmarshalBinary of those
\* 2 bytes yields t.
C8_TagRoundTrip ==
  /\ (last.op = "VLAN.Marshal" /\ ValidTag(last.v))
       => /\ last.err = "nil"
          /\ last.res = <<TagWord(last.v) \div 256, TagWord(last.v) % 256>>
  /\ last.op = "VLAN.Unmarshal"
       => \A t \in VLANs :
            (ValidTag(t) /\ last.arg = <<TagWord(t) \div 256, TagWord(t) % 256>>)
              => last.err = "nil" /\ last.v = t

C8_Witness ==
  /\ last.op = "VLAN.Unmarshal"
  /\ last.err = "nil"
  /\ last.v = [Priority |-> 7, DropEligible |-> TRUE, ID |-> 4093]

\* UnmarshalBinary has returned an error
DecodeFailed ==
  last.op = "Unmarshal" /\ last.err \in {"ErrUnexpectedEOF", "ErrInvalidVLAN"}

C10_NoAliasing ==
  /\ last.op = "Mutate"
       => Val(heap, f) = last.before /\ Val(heap, kept) = last.kbefore
  /\ prov \in {"fresh", "reused"}
       => /\ b.arr \notin Slots(f)
          /\ Cardinality(Slots(f)) = 3
  /\ Slots(f) \cap Slots(kept) = {}
  /\ kept # ZeroFrame => b.arr \notin Slots(kept)

C10_Witness ==
  /\ last.op = "Mutate"
  /\ kept # ZeroFrame
  /\ prov = "fresh"
  /\ last.arg = <<b.len - 1>>
  /\ Len(Val(heap, f).Payload) >= 42
  /\ Len(Val(heap, kept).Payload) >= 42

\* UnmarshalBinary has returned on a Frame that earlier calls had decoded into
ReusedDecode == last.op = "Unmarshal" /\ ~last.fresh /\ last.prov # "literal"

\* what new(Frame).UnmarshalBinary(b) gives for the buffer just decoded
FreshResult ==
  LET r == Frame_UnmarshalBinary(heap, ZeroFrame, b, Slots(f) \cup ({b.arr, out.arr} \ {0}))
  IN [err |-> r.err, f |-> Val(r.h, r.f)]

\* C12: the result of UnmarshalBinary depends on the input bytes only: after
\* any sequence of calls on one Frame the call on b returns what it returns on
\* a new Frame (the minimum-length check accepts and rejects the same buffers),
\* and a successful call leaves the Frame equal to a new Frame decoded from b,
\* with as many tags as b has marker blocks.
C12_ReceiverIndependent ==
  (ReusedDecode /\ last.err # "panic")
    => /\ last.err = FreshResult.err
       /\ last.err = "nil"
            => /\ Val(heap, f) = FreshResult.f
               /\ Len(f.VLAN) = TagCount(last.arg, 14)

\* a Frame decoded from b into a new Frame was marshalled
MarshalOfDecoded == last.op = "Marshal" /\ last.prov = "fresh" /\ b # NilSlice

\* C13: for every buffer b that UnmarshalBinary accepts into a new Frame,
\* MarshalBinary of the decoded Frame returns the bytes of b: the same length
\* and the same bytes, also for a buffer accepted as one whose tag was
\* stripped (no tag, 42 payload bytes).
C13_InverseRoundTrip ==
  MarshalOfDecoded => last.err = "nil" /\ last.res = Bytes(heap, b)

C13_Witness ==
  /\ MarshalOfDecoded
  /\ b.len = 56
  /\ last.before.VLAN = <<>>
  /\ Len(last.before.Payload) = 42
  /\ last.before.Payload[42] = 42
  /\ last.res = Bytes(heap, b)

---------------------------------------------------------------------------
(* PacketConn: the claims *)

\* g is inside WriteTo's section: it holds the read lock and copies the
\* template, reads the mode, encodes and sends
Encoding(g) == gor[g].pc \in {"copy", "encode", "send"}

\* g is inside SetFrame's section: it holds the write lock and replaces the
\* template and the mode
Setting(g) == gor[g].pc \in {"setf", "setmode", "Unlock"}

====
